---- MODULE Spec2Model ----
(***************************************************************************)
(* Model of the layered configuration resolver ConfigLoader               *)
(* (src/src/utils/config.py): singleton construction, .env / environment  *)
(* overrides, YAML document loading, dot-path lookup with type coercion,  *)
(* section retrieval, and reload.                                          *)
(*                                                                         *)
(* Strings are sequences of one-character strings so that upper(),        *)
(* lower(), replace(), split(), int() and float() are computed the way    *)
(* the Python code computes them.  Python objects that have identity      *)
(* (dict, list) live in a heap and are referred to by address, so that    *)
(* dict.copy() is a shallow copy and aliasing is visible.                 *)
(***************************************************************************)
EXTENDS Integers, Sequences, FiniteSets, TLC

(***************************************************************************)
(* Characters and strings                                                  *)
(***************************************************************************)
Uppers == <<"A","B","C","D","E","F","G","H","I","J","K","L","M",
            "N","O","P","Q","R","S","T","U","V","W","X","Y","Z">>
Lowers == <<"a","b","c","d","e","f","g","h","i","j","k","l","m",
            "n","o","p","q","r","s","t","u","v","w","x","y","z">>
Digits == <<"0","1","2","3","4","5","6","7","8","9">>

IsDigit(c) == \E i \in 1..10 : Digits[i] = c
DigitVal(c) == (CHOOSE i \in 1..10 : Digits[i] = c) - 1

\* str.lower() / str.upper() on one character
LowerChar(c) ==
    IF \E i \in 1..26 : Uppers[i] = c
    THEN Lowers[CHOOSE i \in 1..26 : Uppers[i] = c]
    ELSE c
UpperChar(c) ==
    IF \E i \in 1..26 : Lowers[i] = c
    THEN Uppers[CHOOSE i \in 1..26 : Lowers[i] = c]
    ELSE c

StrLower(s) == [i \in 1..Len(s) |-> LowerChar(s[i])]
StrUpper(s) == [i \in 1..Len(s) |-> UpperChar(s[i])]

\* str.replace(old, new) for one-character old and new
StrReplace(s, old, new) == [i \in 1..Len(s) |-> IF s[i] = old THEN new ELSE s[i]]

\* str.split(sep) for a one-character separator: always at least one piece,
\* empty pieces are kept ("a..b" -> ["a", "", "b"], "" -> [""])
RECURSIVE StrSplit(_, _)
StrSplit(s, sep) ==
    IF \A i \in 1..Len(s) : s[i] # sep
    THEN <<s>>
    ELSE LET p == CHOOSE i \in 1..Len(s) :
                      s[i] = sep /\ \A j \in 1..(i-1) : s[j] # sep
         IN  <<SubSeq(s, 1, p-1)>> \o StrSplit(SubSeq(s, p+1, Len(s)), sep)

\* str.strip() as int() and float() apply it (the model's only whitespace
\* character is the blank)
StrStrip(s) ==
    IF \A i \in 1..Len(s) : s[i] = " "
    THEN << >>
    ELSE LET a == CHOOSE i \in 1..Len(s) :
                      s[i] # " " /\ \A j \in 1..(i-1) : s[j] = " "
             b == CHOOSE i \in 1..Len(s) :
                      s[i] # " " /\ \A j \in (i+1)..Len(s) : s[j] = " "
         IN  SubSeq(s, a, b)

(***************************************************************************)
(* Python values.  Scalars are tagged records; dicts and lists are heap   *)
(* objects referred to by VRef(address).                                   *)
(***************************************************************************)
VNull == [t |-> "null"]
VBool(b) == [t |-> "bool", b |-> b]
VInt(n) == [t |-> "int", n |-> n]
VStr(s) == [t |-> "str", s |-> s]
\* a float is mant * 10^exp with sign, or one of the specials inf / nan
VFloat(neg, mant, exp, special) ==
    [t |-> "float", neg |-> neg, mant |-> mant, exp |-> exp, special |-> special]
VRef(a) == [t |-> "ref", r |-> a]

(***************************************************************************)
(* int(str) and float(str)                                                 *)
(***************************************************************************)
\* digits with single underscores between digits: "1", "10", "1_0"
IsDigitRun(s) ==
    /\ Len(s) >= 1
    /\ IsDigit(s[1])
    /\ IsDigit(s[Len(s)])
    /\ \A i \in 1..Len(s) : IsDigit(s[i]) \/ s[i] = "_"
    /\ \A i \in 1..(Len(s)-1) : ~(s[i] = "_" /\ s[i+1] = "_")

RECURSIVE DigitRunValue(_)
DigitRunValue(s) ==
    IF Len(s) = 0 THEN 0
    ELSE LET c == s[Len(s)]
             rest == SubSeq(s, 1, Len(s)-1)
         IN  IF c = "_" THEN DigitRunValue(rest)
             ELSE 10 * DigitRunValue(rest) + DigitVal(c)

\* number of digits of a digit run (underscores do not count)
DigitCount(s) == Cardinality({i \in 1..Len(s) : IsDigit(s[i])})

HasSign(s) == Len(s) >= 1 /\ s[1] \in {"+", "-"}
Unsigned(s) == IF HasSign(s) THEN Tail(s) ELSE s
IsNegative(s) == Len(s) >= 1 /\ s[1] = "-"

\* int(value) succeeds (no ValueError)
IsIntLiteral(s) == IsDigitRun(Unsigned(StrStrip(s)))
IntOf(s) ==
    LET u == StrStrip(s)
        v == DigitRunValue(Unsigned(u))
    IN  IF IsNegative(u) THEN 0 - v ELSE v

FloatWords == { <<"i","n","f">>, <<"i","n","f","i","n","i","t","y">>, <<"n","a","n">> }

\* the mantissa of a decimal float literal: "1", "1.", ".5", "1.5"
IsMantissa(s) ==
    LET dots == {i \in 1..Len(s) : s[i] = "."}
    IN  IF dots = {} THEN IsDigitRun(s)
        ELSE /\ Cardinality(dots) = 1
             /\ LET p == CHOOSE i \in dots : TRUE
                    ip == SubSeq(s, 1, p-1)
                    fp == SubSeq(s, p+1, Len(s))
                IN  /\ (ip = << >> \/ IsDigitRun(ip))
                    /\ (fp = << >> \/ IsDigitRun(fp))
                    /\ ~(ip = << >> /\ fp = << >>)

\* position of the exponent marker, 0 when there is none
ExpPos(s) ==
    IF \E i \in 1..Len(s) : s[i] \in {"e", "E"}
    THEN CHOOSE i \in 1..Len(s) : s[i] \in {"e", "E"} /\ \A j \in 1..(i-1) : s[j] \notin {"e", "E"}
    ELSE 0

IsDecimalFloat(s) ==
    LET p == ExpPos(s)
    IN  IF p = 0 THEN IsMantissa(s)
        ELSE /\ IsMantissa(SubSeq(s, 1, p-1))
             /\ IsDigitRun(Unsigned(SubSeq(s, p+1, Len(s))))

\* float(value) succeeds (no ValueError)
IsFloatLiteral(s) ==
    LET u == Unsigned(StrStrip(s))
    IN  StrLower(u) \in FloatWords \/ IsDecimalFloat(u)

RECURSIVE NormFloat(_, _, _)
NormFloat(neg, mant, exp) ==
    IF mant = 0 THEN VFloat(neg, 0, 0, "num")
    ELSE IF mant % 10 = 0 THEN NormFloat(neg, mant \div 10, exp + 1)
    ELSE VFloat(neg, mant, exp, "num")

FloatOf(s) ==
    LET st == StrStrip(s)
        neg == IsNegative(st)
        u == Unsigned(st)
        lw == StrLower(u)
    IN  IF lw = <<"n","a","n">> THEN VFloat(FALSE, 0, 0, "nan")
        ELSE IF lw \in FloatWords THEN VFloat(neg, 0, 0, "inf")
        ELSE LET p == ExpPos(u)
                 ms == IF p = 0 THEN u ELSE SubSeq(u, 1, p-1)
                 es == IF p = 0 THEN <<"0">> ELSE SubSeq(u, p+1, Len(u))
                 ev == IF IsNegative(es) THEN 0 - DigitRunValue(Unsigned(es))
                       ELSE DigitRunValue(Unsigned(es))
                 dots == {i \in 1..Len(ms) : ms[i] = "."}
                 dp == IF dots = {} THEN Len(ms) + 1 ELSE CHOOSE i \in dots : TRUE
                 ip == SubSeq(ms, 1, dp-1)
                 fp == SubSeq(ms, dp+1, Len(ms))
                 mant == DigitRunValue(ip \o fp)
             IN  NormFloat(neg, mant, ev - DigitCount(fp))

(***************************************************************************)
(* ConfigLoader._convert_type                                              *)
(***************************************************************************)
TrueWords == { <<"t","r","u","e">>, <<"y","e","s">>, <<"1">>, <<"o","n">> }
FalseWords == { <<"f","a","l","s","e">>, <<"n","o">>, <<"0">>, <<"o","f","f">> }

\* a plausible slip: integer conversion tried before the boolean words
ConvertTypeIntFirst(value) ==
    IF IsIntLiteral(value) THEN VInt(IntOf(value))
    ELSE IF StrLower(value) \in TrueWords THEN VBool(TRUE)
    ELSE IF StrLower(value) \in FalseWords THEN VBool(FALSE)
    ELSE IF IsFloatLiteral(value) THEN FloatOf(value)
    ELSE VStr(value)

ConvertType(value) ==
    IF StrLower(value) \in TrueWords THEN VBool(TRUE)
    ELSE IF StrLower(value) \in FalseWords THEN VBool(FALSE)
    ELSE IF IsIntLiteral(value) THEN VInt(IntOf(value))
    ELSE IF IsFloatLiteral(value) THEN FloatOf(value)
    ELSE VStr(value)

(***************************************************************************)
(* Names used by the model: path segments, dot-path keys, environment     *)
(* variable names and values, file-system paths, documents.                *)
(***************************************************************************)
Seg_a == <<"a">>
Seg_b == <<"b">>
Seg_c == <<"c">>
Seg_s == <<"s">>
Seg_l == <<"l">>
Seg_n == <<"n">>
Seg_b_c == <<"b","_","c">>

\* the dot-path keys callers look up
Keys == { <<"a">>,                          \* a mapping
          <<"a",".","b">>,                  \* a nested mapping
          <<"a",".","b",".","c">>,          \* a scalar at depth 3
          <<"a",".","b",".","n">>,          \* a null at depth 3
          <<"a",".","b","_","c">>,          \* same override name as a.b.c
          <<"a","_","b",".","c">>,          \* same override name as a.b.c
          <<"A",".","B">>,                  \* same override name as a.b
          <<"s",".","c">>,                  \* passes through a scalar
          <<"z">> }                         \* absent

Env_A_B == <<"A","_","B">>
Env_A_B_C == <<"A","_","B","_","C">>
Env_OPENAI_API_KEY == <<"O","P","E","N","A","I","_","A","P","I","_","K","E","Y">>

\* the environment variables the model sets and clears
EnvNames == { Env_A_B, Env_A_B_C, Env_OPENAI_API_KEY }
\* the strings they are set to
EnvValues == { <<"1">>, <<"8","0","0">>, <<"x">>, << >> }

\* the values callers pass as default
Defaults == { VNull, VStr(<<"8","0","0">>) }

\* config_path arguments: None, "" and an explicit path
PathArgs == { "none", "empty", "alt" }
Paths == { "default", "alt" }

(***************************************************************************)
(* Heap objects: a dict maps string keys to values, a list is a sequence  *)
(* of values.                                                              *)
(***************************************************************************)
Dict(m) == [k |-> "dict", m |-> m]
List(q) == [k |-> "list", q |-> q]
EmptyDict == Dict(<< >>)

IsRef(v) == v.t = "ref"
IsDictAt(h, v) == IsRef(v) /\ h[v.r].k = "dict"
IsListAt(h, v) == IsRef(v) /\ h[v.r].k = "list"

(***************************************************************************)
(* Documents.  A document is what yaml.safe_load returns for a file: a    *)
(* root value and the objects it builds, addressed relative to the first  *)
(* free heap address.                                                      *)
(***************************************************************************)
DocNames == { "D1", "D2", "Dlist", "Dnull", "Dint" }
\* documents with the entries the accessors read:
\*   Dacc1  app: {debug: true}   api: {port: 8080}
\*   Dacc2  app: {debug: null}   api: {port: "9090"}
\*   Dacc3  app: {debug: "yes"}  api: {port: 80.5}
\*   Dacc4  app: {debug: false}  api: {port: null}
AccDocNames == { "Dacc1", "Dacc2", "Dacc3", "Dacc4" }
Seg_app == <<"a","p","p">>
Seg_debug == <<"d","e","b","u","g">>
Seg_api == <<"a","p","i">>
Seg_port == <<"p","o","r","t">>
BadFileStates == { "missing", "unreadable", "badyaml" }
FileStates == BadFileStates \cup DocNames

DocObjects(d) ==
    CASE d = "D1" ->
           << Dict(Seg_a :> VRef(2) @@ Seg_s :> VInt(5) @@ Seg_l :> VRef(4)),
              Dict(Seg_b :> VRef(3) @@ Seg_b_c :> VStr(<<"1">>)),
              Dict(Seg_c :> VInt(1) @@ Seg_n :> VNull),
              List(<< VStr(<<"p">>) >>) >>
      [] d = "D2" ->
           << Dict(Seg_a :> VRef(2)),
              Dict(Seg_b :> VRef(3)),
              Dict(Seg_c :> VInt(2)) >>
      [] d = "Dlist" -> << List(<< VStr(Seg_a) >>) >>
      [] d = "Dacc1" ->
           << Dict(Seg_app :> VRef(2) @@ Seg_api :> VRef(3)),
              Dict(Seg_debug :> VBool(TRUE)),
              Dict(Seg_port :> VInt(8080)) >>
      [] d = "Dacc2" ->
           << Dict(Seg_app :> VRef(2) @@ Seg_api :> VRef(3)),
              Dict(Seg_debug :> VNull),
              Dict(Seg_port :> VStr(<<"9","0","9","0">>)) >>
      [] d = "Dacc3" ->
           << Dict(Seg_app :> VRef(2) @@ Seg_api :> VRef(3)),
              Dict(Seg_debug :> VStr(<<"y","e","s">>)),
              Dict(Seg_port :> VFloat(FALSE, 805, 0 - 1, "num")) >>
      [] d = "Dacc4" ->
           << Dict(Seg_app :> VRef(2) @@ Seg_api :> VRef(3)),
              Dict(Seg_debug :> VBool(FALSE)),
              Dict(Seg_port :> VNull) >>
      [] OTHER -> << >>

DocRoot(d) ==
    CASE d \in {"D1", "D2", "Dlist"} \cup AccDocNames -> VRef(1)
      [] d = "Dint" -> VInt(7)
      [] OTHER -> VNull

\* .env files: absent, or a flat mapping of names to strings
DotenvNames == { "absent", "envA", "envB" }
DotenvContent(e) ==
    CASE e = "envA" -> (Env_A_B :> <<"8","0","0">>)
      [] e = "envB" -> (Env_OPENAI_API_KEY :> <<"x">> @@ Env_A_B :> <<"1">>)
      [] OTHER -> << >>

(***************************************************************************)
(* Bounds                                                                  *)
(***************************************************************************)
MaxExt == 1        \* changes made from outside the resolver
MaxStrLen == 2     \* length of the strings fed to _convert_type

(***************************************************************************)
(* State                                                                   *)
(***************************************************************************)
VARIABLES
    files,          \* file system: path -> state of the document there
    dotenv,         \* the two candidate .env files: "configs", "root"
    environ,        \* os.environ: the set variables and their strings
    heap,           \* the live dicts and lists, by address
    _instance,      \* ConfigLoader._instance: 0 is None, else object id
    _initialized,   \* ConfigLoader._initialized
    _config_path,   \* self._config_path
    _config,        \* self._config
    _env_loaded,    \* self._env_loaded
    created,        \* number of ConfigLoader objects created so far
    ret,            \* the last call and its outcome
    held,           \* the value the caller keeps from its last lookup
    extCount,       \* number of changes made from outside the resolver so far
    results,        \* verify_setup.main: the (name, passed) pairs recorded
    mainpc,         \* verify_setup.main: where it is
    threads         \* a get and a reload in progress on two threads

vars == << files, dotenv, environ, heap, _instance, _initialized,
           _config_path, _config, _env_loaded, created, ret, held, extCount,
           results, mainpc, threads >>

(***************************************************************************)
(* Outcomes of calls                                                       *)
(***************************************************************************)
Return(v) == [kind |-> "return", val |-> v]
Raise(e) == [kind |-> "raise", exc |-> e]

\* os.getenv(name): the string, or None
IsSet(env, name) == name \in DOMAIN env
Getenv(env, name) == IF IsSet(env, name) THEN VStr(env[name]) ELSE VNull

\* Python truthiness, as `not x` and `x or y` evaluate it
Truthy(h, v) ==
    CASE v.t = "null" -> FALSE
      [] v.t = "bool" -> v.b
      [] v.t = "int" -> v.n # 0
      [] v.t = "str" -> v.s # << >>
      [] v.t = "float" -> ~(v.special = "num" /\ v.mant = 0)
      [] v.t = "ref" -> IF h[v.r].k = "dict" THEN DOMAIN h[v.r].m # {}
                        ELSE h[v.r].q # << >>

(***************************************************************************)
(* Object allocation and release.  A new object is appended to the heap;  *)
(* an object is released as soon as nothing the resolver or the caller    *)
(* holds refers to it (reference counting), and the remaining objects     *)
(* slide down, keeping their order.                                        *)
(***************************************************************************)
Alloc(h, o) == [heap |-> Append(h, o), val |-> VRef(Len(h) + 1)]

\* addresses reachable from the addresses in todo
RECURSIVE Reach(_, _, _)
Reach(h, todo, seen) ==
    IF todo = {} THEN seen
    ELSE LET a == CHOOSE x \in todo : TRUE
             o == h[a]
             vals == IF o.k = "dict" THEN {o.m[k] : k \in DOMAIN o.m}
                     ELSE {o.q[i] : i \in 1..Len(o.q)}
             succ == {v.r : v \in {w \in vals : IsRef(w)}}
         IN  Reach(h, (todo \cup succ) \ (seen \cup {a}), seen \cup {a})

ReachFrom(h, roots) == Reach(h, {v.r : v \in {w \in roots : IsRef(w)}}, {})

Renumber(v, live) ==
    IF IsRef(v) THEN VRef(Cardinality({b \in live : b <= v.r})) ELSE v
RenumberObj(o, live) ==
    IF o.k = "dict"
    THEN Dict([k \in DOMAIN o.m |-> Renumber(o.m[k], live)])
    ELSE List([i \in 1..Len(o.q) |-> Renumber(o.q[i], live)])

\* the heap, self._config and the caller's value after release
Collect(h, cfg, hv) ==
    LET live == ReachFrom(h, {cfg, hv})
    IN  IF live = 1..Len(h) THEN [heap |-> h, cfg |-> cfg, held |-> hv]
        ELSE [heap |-> [i \in 1..Cardinality(live) |->
                           RenumberObj(h[CHOOSE a \in live :
                                             Cardinality({b \in live : b <= a}) = i],
                                       live)],
              cfg |-> Renumber(cfg, live),
              held |-> Renumber(hv, live)]

(***************************************************************************)
(* ConfigLoader._load_env: the first existing candidate .env file is      *)
(* loaded with load_dotenv, which does not override variables already set *)
(***************************************************************************)
EnvCandidates == << "configs", "root" >>

LoadDotenv(env, content) ==
    [n \in DOMAIN env \cup DOMAIN content |->
        IF n \in DOMAIN env THEN env[n] ELSE content[n]]

\* a plausible slip: the break is missing, every existing candidate is loaded
LoadEnvAll(env, de, loaded) ==
    LET e1 == IF de["configs"] # "absent"
              THEN LoadDotenv(env, DotenvContent(de["configs"])) ELSE env
        e2 == IF de["root"] # "absent"
              THEN LoadDotenv(e1, DotenvContent(de["root"])) ELSE e1
        used == {c \in {"configs", "root"} : de[c] # "absent"}
    IN  [env |-> e2, loaded |-> (loaded \/ used # {}), used |-> used]

LoadEnv(env, de, loaded) ==
    IF \E i \in 1..Len(EnvCandidates) : de[EnvCandidates[i]] # "absent"
    THEN LET i == CHOOSE i \in 1..Len(EnvCandidates) :
                      /\ de[EnvCandidates[i]] # "absent"
                      /\ \A j \in 1..(i-1) : de[EnvCandidates[j]] = "absent"
         IN  [env |-> LoadDotenv(env, DotenvContent(de[EnvCandidates[i]])),
              loaded |-> TRUE,
              used |-> {EnvCandidates[i]}]
    ELSE [env |-> env, loaded |-> loaded, used |-> {}]

(***************************************************************************)
(* yaml.safe_load: builds fresh objects for the document                  *)
(***************************************************************************)
Relocate(v, base) == IF IsRef(v) THEN VRef(v.r + base) ELSE v
RelocateObj(o, base) ==
    IF o.k = "dict"
    THEN Dict([k \in DOMAIN o.m |-> Relocate(o.m[k], base)])
    ELSE List([i \in 1..Len(o.q) |-> Relocate(o.q[i], base)])

SafeLoad(h, d) ==
    LET objs == DocObjects(d)
    IN  [heap |-> h \o [i \in 1..Len(objs) |-> RelocateObj(objs[i], Len(h))],
         val |-> Relocate(DocRoot(d), Len(h))]

(***************************************************************************)
(* ConfigLoader._load_config on the file state st: either raises          *)
(* ConfigurationError and leaves self._config alone, or binds             *)
(* self._config to `yaml.safe_load(f) or {}`                               *)
(***************************************************************************)
\* a plausible slip: only the missing file is reported, a read or parse
\* failure leaves the empty configuration in place
LoadConfigLenient(h, cfg, st) ==
    IF st = "missing" THEN [exc |-> "ConfigurationError", heap |-> h, cfg |-> cfg]
    ELSE IF st \in BadFileStates THEN [exc |-> "none", heap |-> h, cfg |-> cfg]
    ELSE LET ld == SafeLoad(h, st)
         IN  IF Truthy(ld.heap, ld.val)
             THEN [exc |-> "none", heap |-> ld.heap, cfg |-> ld.val]
             ELSE LET al == Alloc(ld.heap, EmptyDict)
                  IN  [exc |-> "none", heap |-> al.heap, cfg |-> al.val]

\* a plausible slip: the configuration is emptied before the file is
\* looked at, so a failed load leaves an empty tree
LoadConfigClearsFirst(h, cfg, st) ==
    IF st \in BadFileStates
    THEN LET al == Alloc(h, EmptyDict)
         IN  [exc |-> "ConfigurationError", heap |-> al.heap, cfg |-> al.val]
    ELSE LET ld == SafeLoad(h, st)
         IN  IF Truthy(ld.heap, ld.val)
             THEN [exc |-> "none", heap |-> ld.heap, cfg |-> ld.val]
             ELSE LET al == Alloc(ld.heap, EmptyDict)
                  IN  [exc |-> "none", heap |-> al.heap, cfg |-> al.val]

\* a plausible slip: a configuration that is already loaded is kept
LoadConfigKeepOld(h, cfg, st) ==
    IF st \in BadFileStates THEN [exc |-> "ConfigurationError", heap |-> h, cfg |-> cfg]
    ELSE IF Truthy(h, cfg) THEN [exc |-> "none", heap |-> h, cfg |-> cfg]
    ELSE LET ld == SafeLoad(h, st)
         IN  IF Truthy(ld.heap, ld.val)
             THEN [exc |-> "none", heap |-> ld.heap, cfg |-> ld.val]
             ELSE LET al == Alloc(ld.heap, EmptyDict)
                  IN  [exc |-> "none", heap |-> al.heap, cfg |-> al.val]

LoadConfig(h, cfg, st) ==
    IF st \in BadFileStates THEN [exc |-> "ConfigurationError", heap |-> h, cfg |-> cfg]
    ELSE LET ld == SafeLoad(h, st)
         IN  IF Truthy(ld.heap, ld.val)
             THEN [exc |-> "none", heap |-> ld.heap, cfg |-> ld.val]
             ELSE LET al == Alloc(ld.heap, EmptyDict)
                  IN  [exc |-> "none", heap |-> al.heap, cfg |-> al.val]

(***************************************************************************)
(* ConfigLoader.openai_api_key and _validate_required                     *)
(***************************************************************************)
OpenaiApiKey(env) == Getenv(env, Env_OPENAI_API_KEY)

\* the warnings _validate_required emits; it never raises
ValidateRequired(h, env) ==
    IF ~Truthy(h, OpenaiApiKey(env)) THEN {"OPENAI_API_KEY not set"} ELSE {}

(***************************************************************************)
(* ConfigLoader.get                                                        *)
(***************************************************************************)
\* a plausible slip: the key is not uppercased
EnvKeyNoUpper(key) == StrReplace(key, ".", "_")

EnvKey(key) == StrReplace(StrUpper(key), ".", "_")

\* a plausible slip: a failed navigation of an optional key yields None
RECURSIVE NavigateNoDefault(_, _, _, _, _, _)
NavigateNoDefault(h, value, keys, i, default, required) ==
    IF i > Len(keys) THEN Return(value)
    ELSE IF IsDictAt(h, value) /\ keys[i] \in DOMAIN h[value.r].m
    THEN NavigateNoDefault(h, h[value.r].m[keys[i]], keys, i + 1, default, required)
    ELSE IF required THEN Raise("MissingConfigError")
    ELSE Return(VNull)

\* the for loop over key.split("."), from segment i on
RECURSIVE Navigate(_, _, _, _, _, _)
Navigate(h, value, keys, i, default, required) ==
    IF i > Len(keys) THEN Return(value)
    ELSE IF IsDictAt(h, value) /\ keys[i] \in DOMAIN h[value.r].m
    THEN Navigate(h, h[value.r].m[keys[i]], keys, i + 1, default, required)
    ELSE IF required THEN Raise("MissingConfigError")
    ELSE Return(default)

\* a plausible slip: the document is consulted before the environment
GetDocFirst(env, h, cfg, key, default, required) ==
    LET nav == Navigate(h, cfg, StrSplit(key, "."), 1, VNull, TRUE)
    IN  IF nav.kind = "return" THEN nav
        ELSE IF IsSet(env, EnvKey(key)) THEN Return(ConvertType(env[EnvKey(key)]))
        ELSE IF required THEN Raise("MissingConfigError")
        ELSE Return(default)

\* a plausible slip: every string that is returned goes through _convert_type
GetCoerceAll(env, h, cfg, key, default, required) ==
    LET env_key == EnvKey(key)
        nav == Navigate(h, cfg, StrSplit(key, "."), 1, default, required)
    IN  IF IsSet(env, env_key) THEN Return(ConvertType(env[env_key]))
        ELSE IF nav.kind = "return" /\ nav.val.t = "str"
        THEN Return(ConvertType(nav.val.s))
        ELSE nav

\* a plausible slip: the override is looked up under the key as written
GetEnvKeyAsIs(env, h, cfg, key, default, required) ==
    IF IsSet(env, key) THEN Return(ConvertType(env[key]))
    ELSE Navigate(h, cfg, StrSplit(key, "."), 1, default, required)

Get(env, h, cfg, key, default, required) ==
    LET env_key == EnvKey(key)
    IN  IF IsSet(env, env_key) THEN Return(ConvertType(env[env_key]))
        ELSE Navigate(h, cfg, StrSplit(key, "."), 1, default, required)

(***************************************************************************)
(* ConfigLoader.get_section and ConfigLoader.get_all.  Both may allocate  *)
(* the copy they return, so they yield the outcome and the new heap.      *)
(***************************************************************************)
IsSubstring(x, y) ==
    \E i \in 0..(Len(y) - Len(x)) : SubSeq(y, i + 1, i + Len(x)) = x

\* value.copy(): dict.copy() and list.copy() build a new object holding the
\* same entries; scalars and None have no copy attribute
Copy(h, v) ==
    IF IsRef(v)
    THEN LET al == Alloc(h, h[v.r]) IN [out |-> Return(al.val), heap |-> al.heap]
    ELSE [out |-> Raise("AttributeError"), heap |-> h]

\* a plausible slip: the section is taken out of the tree with
\* self._config.pop(section) instead of being read
GetSectionPop(h, cfg, section) ==
    IF IsDictAt(h, cfg) /\ section \in DOMAIN h[cfg.r].m
    THEN LET taken == h[cfg.r].m[section]
             h1 == [h EXCEPT ![cfg.r] =
                       Dict([k \in DOMAIN h[cfg.r].m \ {section} |-> h[cfg.r].m[k]])]
         IN  Copy(h1, taken)
    ELSE [out |-> Raise("MissingConfigError"), heap |-> h]

GetSection(h, cfg, section) ==
    CASE IsDictAt(h, cfg) ->
           IF section \notin DOMAIN h[cfg.r].m
           THEN [out |-> Raise("MissingConfigError"), heap |-> h]
           ELSE Copy(h, h[cfg.r].m[section])
      [] IsListAt(h, cfg) ->
           IF \A i \in 1..Len(h[cfg.r].q) : h[cfg.r].q[i] # VStr(section)
           THEN [out |-> Raise("MissingConfigError"), heap |-> h]
           ELSE [out |-> Raise("TypeError"), heap |-> h]
      [] cfg.t = "str" ->
           IF ~IsSubstring(section, cfg.s)
           THEN [out |-> Raise("MissingConfigError"), heap |-> h]
           ELSE [out |-> Raise("TypeError"), heap |-> h]
      [] OTHER -> [out |-> Raise("TypeError"), heap |-> h]

GetAll(h, cfg) == Copy(h, cfg)

(***************************************************************************)
(* ConfigLoader.__contains__: get(key, required=True) inside try/except   *)
(* MissingConfigError                                                      *)
(***************************************************************************)
\* a plausible slip: presence is tested by `self.get(key) is not None`
ContainsNotNone(env, h, cfg, key) ==
    Return(VBool(Get(env, h, cfg, key, VNull, FALSE) # Return(VNull)))

Contains(env, h, cfg, key) ==
    LET out == Get(env, h, cfg, key, VNull, TRUE)
    IN  IF out.kind = "return" THEN Return(VBool(TRUE))
        ELSE IF out.exc = "MissingConfigError" THEN Return(VBool(FALSE))
        ELSE out

(***************************************************************************)
(* The accessors is_debug and api_port                                     *)
(***************************************************************************)
Env_DEBUG == <<"D","E","B","U","G">>
Env_APP_DEBUG == <<"A","P","P","_","D","E","B","U","G">>
Env_API_PORT == <<"A","P","I","_","P","O","R","T">>
Key_app_debug == Seg_app \o <<".">> \o Seg_debug
Key_api_port == Seg_api \o <<".">> \o Seg_port
DefaultApiPort == VInt(8000)

RECURSIVE Pow10(_)
Pow10(n) == IF n = 0 THEN 1 ELSE 10 * Pow10(n - 1)

\* int(x) as Python applies it to a str, int, bool, float, None, dict or list
IntCast(h, v) ==
    CASE v.t = "int" -> Return(v)
      [] v.t = "bool" -> Return(VInt(IF v.b THEN 1 ELSE 0))
      [] v.t = "str" -> IF IsIntLiteral(v.s) THEN Return(VInt(IntOf(v.s)))
                        ELSE Raise("ValueError")
      [] v.t = "float" ->
           IF v.special = "inf" THEN Raise("OverflowError")
           ELSE IF v.special = "nan" THEN Raise("ValueError")
           ELSE LET mag == IF v.exp >= 0 THEN v.mant * Pow10(v.exp)
                           ELSE v.mant \div Pow10(0 - v.exp)
                IN  Return(VInt(IF v.neg THEN 0 - mag ELSE mag))
      [] OTHER -> Raise("TypeError")

\* a plausible slip: without DEBUG the flag is false, the get is forgotten
IsDebugEnvOnly(env, h, cfg) ==
    IF IsSet(env, Env_DEBUG)
    THEN Return(VBool(StrLower(env[Env_DEBUG]) \in TrueWords))
    ELSE Return(VBool(FALSE))

IsDebug(env, h, cfg) ==
    IF IsSet(env, Env_DEBUG)
    THEN Return(VBool(StrLower(env[Env_DEBUG]) \in
                          { <<"t","r","u","e">>, <<"1">>, <<"y","e","s">>, <<"o","n">> }))
    ELSE Get(env, h, cfg, Key_app_debug, VBool(FALSE), FALSE)

\* int(os.getenv("API_PORT", self.get("api.port", default=8000))): the get
\* is evaluated first, as an argument
ApiPort(env, h, cfg) ==
    LET fallback == Get(env, h, cfg, Key_api_port, DefaultApiPort, FALSE)
    IN  IF fallback.kind = "raise" THEN fallback
        ELSE IntCast(h, IF IsSet(env, Env_API_PORT) THEN VStr(env[Env_API_PORT])
                        ELSE fallback.val)

(***************************************************************************)
(* Initial state: nothing constructed yet; the document at the default    *)
(* path is in any state, the process environment may hold the credential  *)
(***************************************************************************)
NoCall == [op |-> "none"]
\* no call is in progress on either thread
Idle == [get |-> [pc |-> "idle"], reload |-> [pc |-> "idle"]]

Init ==
    /\ files \in { f \in [Paths -> FileStates] : f["alt"] = "D2" }
    /\ dotenv = [c \in {"configs", "root"} |-> "absent"]
    /\ environ \in { << >>, (Env_OPENAI_API_KEY :> <<"x">>) }
    /\ heap = << >>
    /\ _instance = 0
    /\ _initialized = FALSE
    /\ _config_path = "unset"
    /\ _config = VNull
    /\ _env_loaded = FALSE
    /\ created = 0
    /\ ret = NoCall
    /\ held = VNull
    /\ extCount = 0
    /\ results = << >>
    /\ mainpc = "checks"
    /\ threads = Idle

(***************************************************************************)
(* ConfigLoader(config_path) and get_config(config_path): __new__, then   *)
(* __init__                                                                *)
(***************************************************************************)
\* __new__: the id of the object returned, given cls._instance and the
\* number of objects created so far
New(inst, n) == IF inst = 0 THEN n + 1 ELSE inst

\* a plausible slip: the singleton guard of __init__ is missing
InitSkipsNever(initialized) == FALSE

\* a plausible slip: the guard tests the instance instead of the flag, so
\* an instance whose initialization failed is never initialized again
InitSkipsOnInstance(initialized) == initialized \/ _instance # 0

\* __init__: "if ConfigLoader._initialized: return"
InitSkips(initialized) == initialized

\* "if config_path: ... else: project_root/configs/config.yaml"
ResolvePath(arg) == IF arg \in {"none", "empty"} THEN "default" ELSE arg

ConstructCall(via, arg) ==
    LET obj == New(_instance, created)
        path == ResolvePath(arg)
        a0 == Alloc(heap, EmptyDict)
        le == LoadEnv(environ, dotenv, FALSE)
        lc == LoadConfig(a0.heap, a0.val, files[path])
        warnings == ValidateRequired(lc.heap, le.env)
        g == Collect(lc.heap, lc.cfg, held)
    IN  /\ _instance' = obj
        /\ created' = IF obj > created THEN obj ELSE created
        /\ UNCHANGED << files, dotenv, extCount >>
        /\ IF InitSkips(_initialized)
           THEN /\ ret' = [op |-> "construct", via |-> via, arg |-> arg,
                           out |-> Return(VInt(obj)), ran |-> FALSE,
                           rerun |-> FALSE, warnings |-> {}, used |-> {}]
                /\ UNCHANGED << environ, heap, held, _initialized, _config_path,
                                _config, _env_loaded >>
           ELSE /\ _config_path' = path
                /\ environ' = le.env
                /\ _env_loaded' = le.loaded
                /\ heap' = g.heap
                /\ _config' = g.cfg
                /\ held' = g.held
                /\ IF lc.exc # "none"
                   THEN /\ _initialized' = FALSE
                        /\ ret' = [op |-> "construct", via |-> via, arg |-> arg,
                                   out |-> Raise(lc.exc), ran |-> TRUE,
                                   rerun |-> (_instance # 0),
                                   warnings |-> {}, used |-> le.used]
                   ELSE /\ _initialized' = TRUE
                        /\ ret' = [op |-> "construct", via |-> via, arg |-> arg,
                                   out |-> Return(VInt(obj)), ran |-> TRUE,
                                   rerun |-> (_instance # 0),
                                   warnings |-> warnings, used |-> le.used]

Construct(via, arg) ==
    /\ ConstructCall(via, arg)
    /\ UNCHANGED << results, mainpc, threads >>

(***************************************************************************)
(* ConfigLoader.reload: _load_env, then _load_config; no validation       *)
(***************************************************************************)
Reload ==
    LET le == LoadEnv(environ, dotenv, _env_loaded)
        lc == LoadConfig(heap, _config, files[_config_path])
        g == Collect(lc.heap, lc.cfg, held)
    IN  /\ _initialized
        /\ environ' = le.env
        /\ _env_loaded' = le.loaded
        /\ heap' = g.heap
        /\ _config' = g.cfg
        /\ held' = g.held
        /\ ret' = [op |-> "reload", used |-> le.used,
                   out |-> IF lc.exc # "none" THEN Raise(lc.exc) ELSE Return(VNull)]
        /\ UNCHANGED << files, dotenv, _instance, _initialized, _config_path,
                        created, extCount >>
    /\ UNCHANGED << results, mainpc, threads >>

(***************************************************************************)
(* Lookups on the constructed resolver.  The caller keeps the object a    *)
(* lookup returns until its next lookup returns (a scalar is not tracked: *)
(* it cannot be mutated or go stale).                                      *)
(***************************************************************************)
Sections == { Seg_a, Seg_s, Seg_l, <<"z">> }

Keep(out) ==
    IF out.kind = "return" THEN (IF IsRef(out.val) THEN out.val ELSE VNull) ELSE held

\* the outcome as the caller sees it once released objects are gone
Renumbered(out, g) ==
    IF out.kind = "return" /\ IsRef(out.val) THEN Return(g.held) ELSE out

DoGet(key, default, required) ==
    LET out == Get(environ, heap, _config, key, default, required)
        g == Collect(heap, _config, Keep(out))
    IN  /\ _initialized
        /\ ret' = [op |-> "get", key |-> key, default |-> default,
                   required |-> required, out |-> Renumbered(out, g)]
        /\ heap' = g.heap
        /\ _config' = g.cfg
        /\ held' = g.held
        /\ UNCHANGED << files, dotenv, environ, _instance, _initialized,
                        _config_path, _env_loaded, created, extCount >>
    /\ UNCHANGED << results, mainpc, threads >>

DoGetSection(section) ==
    LET r == GetSection(heap, _config, section)
        g == Collect(r.heap, _config, Keep(r.out))
    IN  /\ _initialized
        /\ ret' = [op |-> "get_section", section |-> section,
                   out |-> Renumbered(r.out, g)]
        /\ heap' = g.heap
        /\ _config' = g.cfg
        /\ held' = g.held
        /\ UNCHANGED << files, dotenv, environ, _instance, _initialized,
                        _config_path, _env_loaded, created, extCount >>
    /\ UNCHANGED << results, mainpc, threads >>

DoGetAll ==
    LET r == GetAll(heap, _config)
        g == Collect(r.heap, _config, Keep(r.out))
    IN  /\ _initialized
        /\ ret' = [op |-> "get_all", out |-> Renumbered(r.out, g)]
        /\ heap' = g.heap
        /\ _config' = g.cfg
        /\ held' = g.held
        /\ UNCHANGED << files, dotenv, environ, _instance, _initialized,
                        _config_path, _env_loaded, created, extCount >>
    /\ UNCHANGED << results, mainpc, threads >>

DoContains(key) ==
    /\ _initialized
    /\ ret' = [op |-> "contains", key |-> key,
               out |-> Contains(environ, heap, _config, key)]
    /\ UNCHANGED << files, dotenv, environ, heap, _instance, _initialized,
                    _config_path, _config, _env_loaded, created, held, extCount >>
    /\ UNCHANGED << results, mainpc, threads >>

DoIsDebug ==
    /\ _initialized
    /\ ret' = [op |-> "is_debug", out |-> IsDebug(environ, heap, _config)]
    /\ UNCHANGED << files, dotenv, environ, heap, _instance, _initialized,
                    _config_path, _config, _env_loaded, created, held, extCount >>
    /\ UNCHANGED << results, mainpc, threads >>

DoApiPort ==
    /\ _initialized
    /\ ret' = [op |-> "api_port", out |-> ApiPort(environ, heap, _config)]
    /\ UNCHANGED << files, dotenv, environ, heap, _instance, _initialized,
                    _config_path, _config, _env_loaded, created, held, extCount >>
    /\ UNCHANGED << results, mainpc, threads >>

DoOpenaiApiKey ==
    /\ _initialized
    /\ ret' = [op |-> "openai_api_key", out |-> Return(OpenaiApiKey(environ))]
    /\ UNCHANGED << files, dotenv, environ, heap, _instance, _initialized,
                    _config_path, _config, _env_loaded, created, held, extCount >>
    /\ UNCHANGED << results, mainpc, threads >>

(***************************************************************************)
(* The world outside the resolver: other code changes os.environ, the     *)
(* document or the .env files change on disk, and callers mutate the      *)
(* objects the lookups handed to them.                                     *)
(***************************************************************************)
SetEnv(name, value) ==
    /\ extCount < MaxExt
    /\ ~(IsSet(environ, name) /\ environ[name] = value)
    /\ environ' = [n \in DOMAIN environ \cup {name} |->
                       IF n = name THEN value ELSE environ[n]]
    /\ ret' = [op |-> "setenv", name |-> name]
    /\ extCount' = extCount + 1
    /\ UNCHANGED << files, dotenv, heap, _instance, _initialized,
                    _config_path, _config, _env_loaded, created, held >>
    /\ UNCHANGED << results, mainpc, threads >>

UnsetEnv(name) ==
    /\ extCount < MaxExt
    /\ IsSet(environ, name)
    /\ environ' = [n \in DOMAIN environ \ {name} |-> environ[n]]
    /\ ret' = [op |-> "unsetenv", name |-> name]
    /\ extCount' = extCount + 1
    /\ UNCHANGED << files, dotenv, heap, _instance, _initialized,
                    _config_path, _config, _env_loaded, created, held >>
    /\ UNCHANGED << results, mainpc, threads >>

WriteFile(path, st) ==
    /\ extCount < MaxExt
    /\ files[path] # st
    /\ files' = [files EXCEPT ![path] = st]
    /\ ret' = [op |-> "writefile", path |-> path]
    /\ extCount' = extCount + 1
    /\ UNCHANGED << dotenv, environ, heap, _instance, _initialized,
                    _config_path, _config, _env_loaded, created, held >>
    /\ UNCHANGED << results, mainpc, threads >>

WriteDotenv(c, e) ==
    /\ extCount < MaxExt
    /\ dotenv[c] # e
    /\ dotenv' = [dotenv EXCEPT ![c] = e]
    /\ ret' = [op |-> "writedotenv", candidate |-> c]
    /\ extCount' = extCount + 1
    /\ UNCHANGED << files, environ, heap, _instance, _initialized,
                    _config_path, _config, _env_loaded, created, held >>
    /\ UNCHANGED << results, mainpc, threads >>

MutKeys == { Seg_b, Seg_c }
MutValue == VInt(9)

\* the caller adds, replaces or removes an entry of an object reachable
\* from the value it holds
Mutate(a, how, k) ==
    /\ extCount < MaxExt
    /\ a \in ReachFrom(heap, {held})
    /\ LET o == heap[a]
           h1 == CASE how = "set" /\ o.k = "dict" ->
                        [heap EXCEPT ![a] =
                            Dict([x \in DOMAIN o.m \cup {k} |->
                                     IF x = k THEN MutValue ELSE o.m[x]])]
                   [] how = "del" /\ o.k = "dict" /\ k \in DOMAIN o.m ->
                        [heap EXCEPT ![a] =
                            Dict([x \in DOMAIN o.m \ {k} |-> o.m[x]])]
                   [] how = "set" /\ o.k = "list" ->
                        [heap EXCEPT ![a] = List(Append(o.q, MutValue))]
                   [] how = "del" /\ o.k = "list" /\ o.q # << >> ->
                        [heap EXCEPT ![a] = List(SubSeq(o.q, 1, Len(o.q) - 1))]
                   [] OTHER -> heap
           g == Collect(h1, _config, held)
       IN  /\ h1 # heap
           /\ heap' = g.heap
           /\ _config' = g.cfg
           /\ held' = g.held
    /\ ret' = [op |-> "mutate", how |-> how, seg |-> k]
    /\ extCount' = extCount + 1
    /\ UNCHANGED << files, dotenv, environ, _instance, _initialized,
                    _config_path, _env_loaded, created >>
    /\ UNCHANGED << results, mainpc, threads >>

(***************************************************************************)
(* Specification of the resolver's life cycle: construction, reload,      *)
(* scalar lookups, and a changing environment and file system             *)
(***************************************************************************)
LifeKeys == { <<"a",".","b",".","c">>, <<"a","_","b",".","c">>, <<"z">> }
LifeEnvNames == { Env_A_B_C, Env_OPENAI_API_KEY }
LifeEnvValues == { <<"8","0","0">>, << >> }

Next ==
    \/ \E via \in {"ConfigLoader", "get_config"}, arg \in PathArgs : Construct(via, arg)
    \/ Reload
    \/ \E key \in LifeKeys, required \in BOOLEAN :
           DoGet(key, VStr(<<"8","0","0">>), required)
    \/ DoOpenaiApiKey
    \/ \E name \in LifeEnvNames, value \in LifeEnvValues : SetEnv(name, value)
    \/ \E name \in LifeEnvNames : UnsetEnv(name)
    \/ \E st \in FileStates : WriteFile("default", st)
    \/ \E c \in {"configs", "root"}, e \in DotenvNames : WriteDotenv(c, e)

Spec == Init /\ [][Next]_vars

(***************************************************************************)
(* Specification of lookups that hand out objects: the caller keeps and   *)
(* mutates what get, get_section and get_all returned, while the document *)
(* changes and the resolver reloads                                        *)
(***************************************************************************)
AliasKeys == { <<"a">>, <<"a",".","b">>, <<"a",".","b",".","c">>, <<"z">> }
AliasFileStates == { "D1", "D2", "missing" }

NextAlias ==
    \/ \E arg \in PathArgs : Construct("ConfigLoader", arg)
    \/ Reload
    \/ \E key \in AliasKeys, required \in BOOLEAN : DoGet(key, VNull, required)
    \/ \E section \in Sections : DoGetSection(section)
    \/ DoGetAll
    \/ \E st \in AliasFileStates : WriteFile("default", st)
    \/ \E a \in 1..Len(heap), how \in {"set", "del"}, k \in MutKeys : Mutate(a, how, k)

\* objects and their sharing do not depend on the environment: it starts
\* empty here
InitAlias == Init /\ environ = << >>

SpecAlias == InitAlias /\ [][NextAlias]_vars

(***************************************************************************)
(* Specification of the lookups alone on a constructed resolver, with and *)
(* without an override in the environment                                  *)
(***************************************************************************)
InitFrame ==
    /\ files \in { f \in [Paths -> FileStates] : f["alt"] = "D2" }
    /\ dotenv = [c \in {"configs", "root"} |-> "absent"]
    /\ environ \in { << >>, (Env_A_B_C :> <<"8","0","0">>) }
    /\ heap = << >>
    /\ _instance = 0
    /\ _initialized = FALSE
    /\ _config_path = "unset"
    /\ _config = VNull
    /\ _env_loaded = FALSE
    /\ created = 0
    /\ ret = NoCall
    /\ held = VNull
    /\ extCount = 0
    /\ results = << >>
    /\ mainpc = "checks"
    /\ threads = Idle

NextFrame ==
    \/ Construct("ConfigLoader", "none")
    \/ \E key \in AliasKeys, required \in BOOLEAN : DoGet(key, VNull, required)
    \/ \E section \in Sections : DoGetSection(section)
    \/ DoGetAll
    \/ \E key \in AliasKeys : DoContains(key)

SpecFrame == InitFrame /\ [][NextFrame]_vars

(***************************************************************************)
(* get and reload on two threads.  Each action is one step that the       *)
(* interpreter does not interleave further: get tests the environment,    *)
(* reads self._config into its local `value`, then walks one segment per  *)
(* step; reload loads the .env file, parses the document into a new       *)
(* object, then binds self._config to it.                                  *)
(***************************************************************************)
\* release of the objects that neither the resolver nor a thread refers to
RaceCollect(h, cfg, th) ==
    LET roots == {cfg}
                 \cup (IF th.get.pc # "idle" THEN {th.get.value, th.get.cfg0} ELSE {})
                 \cup (IF th.reload.pc = "assign" THEN {th.reload.tmp} ELSE {})
        live == ReachFrom(h, roots)
        g == [th.get EXCEPT !.value = Renumber(th.get.value, live),
                            !.cfg0 = Renumber(th.get.cfg0, live)]
        r == [th.reload EXCEPT !.tmp = Renumber(th.reload.tmp, live)]
    IN  [heap |-> [i \in 1..Cardinality(live) |->
                      RenumberObj(h[CHOOSE a \in live :
                                        Cardinality({b \in live : b <= a}) = i],
                                  live)],
         cfg |-> Renumber(cfg, live),
         threads |-> [get |-> IF th.get.pc # "idle" THEN g ELSE th.get,
                      reload |-> IF th.reload.pc = "assign" THEN r ELSE th.reload]]

\* get, lines 249-253: the override test.  cfg0 remembers the tree bound
\* when the call began, assigns counts the reloads that bind a tree while
\* the call runs
GetBegin(key, default, required) ==
    /\ _initialized
    /\ threads.get.pc = "idle"
    /\ IF IsSet(environ, EnvKey(key))
       THEN /\ ret' = [op |-> "get", key |-> key, default |-> default,
                       required |-> required, assigns |-> 0,
                       out |-> Return(ConvertType(environ[EnvKey(key)]))]
            /\ threads' = threads
       ELSE /\ ret' = ret
            /\ threads' = [threads EXCEPT !.get =
                               [pc |-> "read", key |-> key, default |-> default,
                                required |-> required, value |-> VNull, i |-> 1,
                                cfg0 |-> _config, assigns |-> 0]]
    /\ UNCHANGED << files, dotenv, environ, heap, _instance, _initialized,
                    _config_path, _config, _env_loaded, created, held, extCount,
                    results, mainpc >>

\* get, lines 256-257: value = self._config
GetReadConfig ==
    /\ threads.get.pc = "read"
    /\ threads' = [threads EXCEPT !.get.pc = "loop", !.get.value = _config]
    /\ UNCHANGED << files, dotenv, environ, heap, _instance, _initialized,
                    _config_path, _config, _env_loaded, created, ret, held,
                    extCount, results, mainpc >>

\* get, lines 259-269: one turn of the loop over the segments, or the end
GetStep ==
    /\ threads.get.pc = "loop"
    /\ LET t == threads.get
           keys == StrSplit(t.key, ".")
           descend == t.i <= Len(keys) /\ IsDictAt(heap, t.value)
                          /\ keys[t.i] \in DOMAIN heap[t.value.r].m
           out == IF t.i > Len(keys) THEN Return(t.value)
                  ELSE IF t.required THEN Raise("MissingConfigError")
                  ELSE Return(t.default)
           g == RaceCollect(heap, _config, [threads EXCEPT !.get = [pc |-> "idle"]])
       IN  IF descend
           THEN /\ threads' = [threads EXCEPT !.get.value = heap[t.value.r].m[keys[t.i]],
                                              !.get.i = t.i + 1]
                /\ UNCHANGED << heap, _config, ret >>
           ELSE /\ ret' = [op |-> "get", key |-> t.key, default |-> t.default,
                           required |-> t.required, assigns |-> t.assigns,
                           out |-> out]
                /\ heap' = g.heap
                /\ _config' = g.cfg
                /\ threads' = g.threads
    /\ UNCHANGED << files, dotenv, environ, _instance, _initialized,
                    _config_path, _env_loaded, created, held, extCount,
                    results, mainpc >>

\* reload, line 351: self._load_env()
ReloadBegin ==
    /\ _initialized
    /\ threads.reload.pc = "idle"
    /\ LET le == LoadEnv(environ, dotenv, _env_loaded)
       IN  /\ environ' = le.env
           /\ _env_loaded' = le.loaded
    /\ threads' = [threads EXCEPT !.reload = [pc |-> "load", tmp |-> VNull]]
    /\ UNCHANGED << files, dotenv, heap, _instance, _initialized, _config_path,
                    _config, created, ret, held, extCount, results, mainpc >>

\* a plausible slip: reload empties self._config before it parses, as
\* __init__ does
ReloadParseResetting ==
    /\ threads.reload.pc = "load"
    /\ LET al == Alloc(heap, EmptyDict)
           lc == LoadConfig(al.heap, al.val, files[_config_path])
       IN  IF lc.exc # "none"
           THEN /\ ret' = [op |-> "reload", used |-> {}, out |-> Raise(lc.exc)]
                /\ threads' = [threads EXCEPT !.reload = [pc |-> "idle"]]
                /\ UNCHANGED << heap, _config >>
           ELSE /\ heap' = lc.heap
                /\ _config' = al.val
                /\ threads' = [threads EXCEPT !.reload = [pc |-> "assign", tmp |-> lc.cfg]]
                /\ ret' = ret
    /\ UNCHANGED << files, dotenv, environ, _instance, _initialized,
                    _config_path, _env_loaded, created, held, extCount,
                    results, mainpc >>

\* _load_config, lines 165-174 up to the assignment: the file is checked,
\* opened and parsed, `yaml.safe_load(f) or {}` is evaluated
ReloadParse ==
    /\ threads.reload.pc = "load"
    /\ LET lc == LoadConfig(heap, _config, files[_config_path])
       IN  IF lc.exc # "none"
           THEN /\ ret' = [op |-> "reload", used |-> {}, out |-> Raise(lc.exc)]
                /\ threads' = [threads EXCEPT !.reload = [pc |-> "idle"]]
                /\ heap' = heap
           ELSE /\ heap' = lc.heap
                /\ threads' = [threads EXCEPT !.reload = [pc |-> "assign", tmp |-> lc.cfg]]
                /\ ret' = ret
    /\ UNCHANGED << files, dotenv, environ, _instance, _initialized,
                    _config_path, _config, _env_loaded, created, held, extCount,
                    results, mainpc >>

\* _load_config, line 174: the assignment to self._config; reload returns
ReloadAssign ==
    /\ threads.reload.pc = "assign"
    /\ LET th == [threads EXCEPT
                     !.reload = [pc |-> "idle"],
                     !.get = IF threads.get.pc = "idle" THEN threads.get
                             ELSE [threads.get EXCEPT
                                      !.assigns = IF @ < 2 THEN @ + 1 ELSE @]]
           g == RaceCollect(heap, threads.reload.tmp, th)
       IN  /\ heap' = g.heap
           /\ _config' = g.cfg
           /\ threads' = g.threads
    /\ ret' = [op |-> "reload", used |-> {}, out |-> Return(VNull)]
    /\ UNCHANGED << files, dotenv, environ, _instance, _initialized,
                    _config_path, _env_loaded, created, held, extCount,
                    results, mainpc >>

RaceKeys == { <<"a",".","b",".","c">>, <<"s">> }

NextRace ==
    \/ Construct("ConfigLoader", "none")
    \/ \E key \in RaceKeys, required \in BOOLEAN : GetBegin(key, VNull, required)
    \/ GetReadConfig
    \/ GetStep
    \/ ReloadBegin
    \/ ReloadParse
    \/ ReloadAssign
    \/ \E st \in AliasFileStates : WriteFile("default", st)

SpecRace == InitAlias /\ [][NextRace]_vars

(***************************************************************************)
(* scripts/verify_setup.py: main() appends the result of nine checks to   *)
(* results, calls the API-key check, and returns 0 or 1 from the summary  *)
(***************************************************************************)
CheckNames == << "Core Libraries", "Document Processing", "Vector & Embeddings",
                 "LLM Integration", "NLP Libraries", "Utilities",
                 "Directories", "Configuration", "Logger" >>

\* the first six checks import libraries and catch ImportError only (and
\* OSError from spacy.load): they return True, return False, or let any
\* other exception of an import through, which ends main()
ImportCheck(outcome) ==
    /\ mainpc = "checks"
    /\ Len(results) < 6
    /\ IF outcome = "raise"
       THEN /\ mainpc' = "raised"
            /\ results' = results
            /\ ret' = [op |-> "main", out |-> Raise("Exception")]
       ELSE /\ mainpc' = mainpc
            /\ results' = Append(results, << CheckNames[Len(results) + 1],
                                              outcome = "pass" >>)
            /\ ret' = [op |-> "check", out |-> Return(VBool(outcome = "pass"))]
    /\ UNCHANGED << files, dotenv, environ, heap, _instance, _initialized,
                    _config_path, _config, _env_loaded, created, held, extCount,
                    threads >>

\* check_directories: every required directory exists, or not
DirectoriesCheck(passed) ==
    /\ mainpc = "checks"
    /\ Len(results) = 6
    /\ results' = Append(results, << CheckNames[7], passed >>)
    /\ ret' = [op |-> "check", out |-> Return(VBool(passed))]
    /\ UNCHANGED << files, dotenv, environ, heap, _instance, _initialized,
                    _config_path, _config, _env_loaded, created, held, extCount,
                    mainpc, threads >>

\* check_configuration: False when config.yaml is missing; otherwise it
\* imports src.utils.config, whose last statement constructs the resolver,
\* and every exception of that is caught and gives False
ConfigurationCheck(importable) ==
    /\ mainpc = "checks"
    /\ Len(results) = 7
    /\ IF files["default"] = "missing" \/ ~importable
       THEN /\ results' = Append(results, << CheckNames[8], FALSE >>)
            /\ ret' = [op |-> "check", out |-> Return(VBool(FALSE))]
            /\ UNCHANGED << environ, heap, _instance, _initialized, _config_path,
                            _config, _env_loaded, created, held >>
       ELSE /\ ConstructCall("get_config", "none")
            /\ results' = Append(results, << CheckNames[8], ret'.out.kind = "return" >>)
    /\ UNCHANGED << files, dotenv, extCount, mainpc, threads >>

\* check_logger: catches every exception and returns True or False
LoggerCheck(passed) ==
    /\ mainpc = "checks"
    /\ Len(results) = 8
    /\ results' = Append(results, << CheckNames[9], passed >>)
    /\ mainpc' = "api_key"
    /\ ret' = [op |-> "check", out |-> Return(VBool(passed))]
    /\ UNCHANGED << files, dotenv, environ, heap, _instance, _initialized,
                    _config_path, _config, _env_loaded, created, held, extCount,
                    threads >>

\* a plausible slip: the API-key check is recorded like the other checks
ApiKeyCheckRecorded ==
    /\ mainpc = "api_key"
    /\ mainpc' = "summary"
    /\ results' = Append(results, << "API Key", Truthy(heap, OpenaiApiKey(environ)) >>)
    /\ ret' = [op |-> "check_openai_api_key",
               out |-> Return(VBool(Truthy(heap, OpenaiApiKey(environ))))]
    /\ UNCHANGED << files, dotenv, environ, heap, _instance, _initialized,
                    _config_path, _config, _env_loaded, created, held, extCount,
                    threads >>

\* check_openai_api_key(): called, its result dropped
ApiKeyCheck ==
    /\ mainpc = "api_key"
    /\ mainpc' = "summary"
    /\ ret' = [op |-> "check_openai_api_key",
               out |-> Return(VBool(Truthy(heap, OpenaiApiKey(environ))))]
    /\ UNCHANGED << files, dotenv, environ, heap, _instance, _initialized,
                    _config_path, _config, _env_loaded, created, held, extCount,
                    results, threads >>

\* the summary loop and the return; api_key remembers what the API-key
\* check had returned
Summary ==
    /\ mainpc = "summary"
    /\ mainpc' = "returned"
    /\ ret' = [op |-> "main", api_key |-> ret.out.val.b,
               out |-> Return(VInt(IF \A i \in 1..Len(results) : results[i][2]
                                   THEN 0 ELSE 1))]
    /\ UNCHANGED << files, dotenv, environ, heap, _instance, _initialized,
                    _config_path, _config, _env_loaded, created, held, extCount,
                    results, threads >>

InitVerify ==
    /\ files \in { f \in [Paths -> {"D1", "missing", "badyaml"}] : f["alt"] = "D1" }
    /\ dotenv \in { d \in [{"configs", "root"} -> {"absent", "envB"}] :
                        d["root"] = "absent" }
    /\ environ \in { << >>, (Env_OPENAI_API_KEY :> <<"x">>) }
    /\ heap = << >>
    /\ _instance = 0
    /\ _initialized = FALSE
    /\ _config_path = "unset"
    /\ _config = VNull
    /\ _env_loaded = FALSE
    /\ created = 0
    /\ ret = NoCall
    /\ held = VNull
    /\ extCount = 0
    /\ results = << >>
    /\ mainpc = "checks"
    /\ threads = Idle

NextVerify ==
    \/ \E outcome \in {"pass", "fail", "raise"} : ImportCheck(outcome)
    \/ \E passed \in BOOLEAN : DirectoriesCheck(passed)
    \/ \E importable \in BOOLEAN : ConfigurationCheck(importable)
    \/ \E passed \in BOOLEAN : LoggerCheck(passed)
    \/ ApiKeyCheck
    \/ Summary

SpecVerify == InitVerify /\ [][NextVerify]_vars

(***************************************************************************)
(* Specification of override loading: the two candidate .env files exist  *)
(* or not when the process starts and change while it runs                 *)
(***************************************************************************)
InitEnv ==
    /\ files \in { f \in [Paths -> {"D1", "missing"}] : f["alt"] = "D1" }
    /\ dotenv \in [{"configs", "root"} -> DotenvNames]
    /\ environ \in { << >>, (Env_A_B :> <<"x">>) }
    /\ heap = << >>
    /\ _instance = 0
    /\ _initialized = FALSE
    /\ _config_path = "unset"
    /\ _config = VNull
    /\ _env_loaded = FALSE
    /\ created = 0
    /\ ret = NoCall
    /\ held = VNull
    /\ extCount = 0
    /\ results = << >>
    /\ mainpc = "checks"
    /\ threads = Idle

NextEnv ==
    \/ \E arg \in {"none", "alt"} : Construct("ConfigLoader", arg)
    \/ Reload
    \/ \E c \in {"configs", "root"}, e \in DotenvNames : WriteDotenv(c, e)

SpecEnv == InitEnv /\ [][NextEnv]_vars

(***************************************************************************)
(* Specification of the accessors as functions of the document and the    *)
(* environment                                                             *)
(***************************************************************************)
AccEnvNames == { Env_DEBUG, Env_APP_DEBUG, Env_API_PORT }
AccEnvValues == { <<"1">>, <<"0">>, <<"O","n">>, <<"8","0","0">>, <<"x">>, << >> }
AccEnvirons ==
    { e \in UNION { [ns -> AccEnvValues] : ns \in SUBSET AccEnvNames } :
          Cardinality(DOMAIN e) <= 2 }

InitAcc ==
    /\ files \in { f \in [Paths -> AccDocNames \cup {"D1"}] : f["alt"] = "D1" }
    /\ dotenv = [c \in {"configs", "root"} |-> "absent"]
    /\ environ \in AccEnvirons
    /\ heap = << >>
    /\ _instance = 0
    /\ _initialized = FALSE
    /\ _config_path = "unset"
    /\ _config = VNull
    /\ _env_loaded = FALSE
    /\ created = 0
    /\ ret = NoCall
    /\ held = VNull
    /\ extCount = 0
    /\ results = << >>
    /\ mainpc = "checks"
    /\ threads = Idle

NextAcc ==
    \/ Construct("ConfigLoader", "none")
    \/ DoIsDebug
    \/ DoApiPort

SpecAcc == InitAcc /\ [][NextAcc]_vars

(***************************************************************************)
(* Specification of get as a function of the document and the             *)
(* environment: every document, a range of environments, every key,       *)
(* default and required flag                                               *)
(***************************************************************************)
Env_A == <<"A">>
Env_S_C == <<"S","_","C">>
Env_Z == <<"Z">>
GetEnvNames == { Env_A, Env_A_B, Env_A_B_C, Env_S_C, Env_Z }
GetEnvValues == { <<"1">>, <<"0">>, <<"8","0","0">>, <<"O","n">>, <<"1",".","5">>,
                  <<" ","7">>, <<"x">>, << >> }

GetEnvirons ==
    { << >> } \cup { (n :> v) : n \in GetEnvNames, v \in GetEnvValues }

InitLookup ==
    /\ files \in { f \in [Paths -> FileStates] : f["alt"] = "D2" }
    /\ dotenv = [c \in {"configs", "root"} |-> "absent"]
    /\ environ \in GetEnvirons
    /\ heap = << >>
    /\ _instance = 0
    /\ _initialized = FALSE
    /\ _config_path = "unset"
    /\ _config = VNull
    /\ _env_loaded = FALSE
    /\ created = 0
    /\ ret = NoCall
    /\ held = VNull
    /\ extCount = 0
    /\ results = << >>
    /\ mainpc = "checks"
    /\ threads = Idle

NextLookup ==
    \/ Construct("ConfigLoader", "none")
    \/ \E key \in Keys, default \in Defaults, required \in BOOLEAN :
           DoGet(key, default, required)
    \/ \E key \in Keys : DoContains(key)

SpecLookup == InitLookup /\ [][NextLookup]_vars

(***************************************************************************)
(* Specification of _convert_type as a function of its argument           *)
(***************************************************************************)
ConvAlphabet == { "0", "1", "8", "-", ".", " ", "e", "_", "n", "O", "o", "f" }
ConvWords == { <<"t","r","u","e">>, <<"T","R","U","E">>, <<"Y","e","s">>,
               <<"f","a","l","s","e">>, <<"F","a","l","s","e">>, <<"o","f","f">>,
               <<"8","0","0">>, <<"-","1","_","0">>, <<"1",".","5","0">>,
               <<"1","e","-","3">>, <<"-","i","n","f">>, <<"n","a","n">>,
               <<"t","r","u","e"," ">>, <<"1","_","_","0">>, <<"a","b","c">> }

RECURSIVE StringsUpTo(_)
StringsUpTo(n) ==
    IF n = 0 THEN { << >> }
    ELSE LET shorter == StringsUpTo(n - 1)
         IN  shorter \cup { Append(s, c) : s \in shorter, c \in ConvAlphabet }

ConvInputs == StringsUpTo(MaxStrLen) \cup ConvWords

InitConv ==
    /\ files = [p \in Paths |-> "missing"]
    /\ dotenv = [c \in {"configs", "root"} |-> "absent"]
    /\ environ = << >>
    /\ heap = << >>
    /\ _instance = 0
    /\ _initialized = FALSE
    /\ _config_path = "unset"
    /\ _config = VNull
    /\ _env_loaded = FALSE
    /\ created = 0
    /\ ret \in { [op |-> "argument", value |-> s] : s \in ConvInputs }
    /\ held = VNull
    /\ extCount = 0
    /\ results = << >>
    /\ mainpc = "checks"
    /\ threads = Idle

DoConvertType ==
    /\ ret.op = "argument"
    /\ ret' = [op |-> "_convert_type", value |-> ret.value,
               out |-> Return(ConvertType(ret.value))]
    /\ UNCHANGED << files, dotenv, environ, heap, _instance, _initialized,
                    _config_path, _config, _env_loaded, created, held, extCount >>
    /\ UNCHANGED << results, mainpc, threads >>

NextConv == DoConvertType

SpecConv == InitConv /\ [][NextConv]_vars

(***************************************************************************)
(* Properties                                                              *)
(***************************************************************************)

\* C1: once a construction has succeeded, every later construction request
\* (ConfigLoader(...) or get_config(...), with any path argument) returns the
\* identical instance and does not run initialization again: the document
\* path, the tree, the environment and the initialized flag stay as they are
\* and the path argument is ignored.
C1_SingletonNoReinit ==
    [][ (_initialized /\ ret'.op = "construct") =>
            /\ ret'.out = Return(VInt(_instance))
            /\ _instance # 0
            /\ _instance' = _instance
            /\ ~ret'.ran
            /\ _initialized'
            /\ _config_path' = _config_path
            /\ _config' = _config
            /\ heap' = heap
            /\ environ' = environ
            /\ _env_loaded' = _env_loaded ]_vars

\* a later construction with an explicit path returned while the resolver
\* stays on the document of the first construction
C1_Witness ==
    /\ ret.op = "construct"
    /\ ~ret.ran
    /\ ret.arg = "alt"
    /\ ret.via = "get_config"
    /\ _initialized
    /\ _config_path = "default"

RECURSIVE Follow(_, _, _)
Follow(h, v, segs) ==
    IF segs = << >> THEN [found |-> TRUE, val |-> v]
    ELSE IF IsRef(v) /\ h[v.r].k = "dict" /\ Head(segs) \in DOMAIN h[v.r].m
    THEN Follow(h, h[v.r].m[Head(segs)], Tail(segs))
    ELSE [found |-> FALSE, val |-> VNull]

PathOf(key) == StrSplit(key, ".")
HasOverride(key) == StrReplace(StrUpper(key), ".", "_") \in DOMAIN environ
OverrideOf(key) == environ[StrReplace(StrUpper(key), ".", "_")]

\* C2: for every key whose transformed name (uppercased, '.' replaced by
\* '_') is present in the overrides, get returns the coerced override value,
\* whatever the document holds at that path and whatever default and
\* required are.
C2_OverrideWins ==
    (ret.op = "get" /\ HasOverride(ret.key)) =>
        ret.out = Return(ConvertType(OverrideOf(ret.key)))

\* the override 800 is returned for a required key the document holds as 1
C2_Witness ==
    /\ ret.op = "get"
    /\ ret.key = <<"a",".","b",".","c">>
    /\ ret.required
    /\ HasOverride(ret.key)
    /\ Follow(heap, _config, PathOf(ret.key)) = [found |-> TRUE, val |-> VInt(1)]
    /\ ret.out = Return(VInt(800))

\* C3: for every key that is navigable in the document and has no override,
\* get returns exactly the value stored at that path, not coerced, whatever
\* default and required are.
C3_DocumentValueUnchanged ==
    (ret.op = "get" /\ ~HasOverride(ret.key)
        /\ Follow(heap, _config, PathOf(ret.key)).found) =>
        ret.out = Return(Follow(heap, _config, PathOf(ret.key)).val)

\* the document string "1" comes back as a string although a default is given
C3_Witness ==
    /\ ret.op = "get"
    /\ ret.key = <<"a",".","b","_","c">>
    /\ ret.default = VStr(<<"8","0","0">>)
    /\ ~HasOverride(ret.key)
    /\ ret.out = Return(VStr(<<"1">>))

\* C4: for every key with no override whose navigation fails, get with
\* required=False returns the default itself, not coerced, and get with
\* required=True raises MissingConfigError; nothing else happens.
C4_MissingKey ==
    (ret.op = "get" /\ ~HasOverride(ret.key)
        /\ ~Follow(heap, _config, PathOf(ret.key)).found) =>
        ret.out = IF ret.required THEN Raise("MissingConfigError")
                  ELSE Return(ret.default)

\* the default "800" comes back as a string for a path through a scalar
C4_Witness ==
    /\ ret.op = "get"
    /\ ret.key = <<"s",".","c">>
    /\ ~ret.required
    /\ ~HasOverride(ret.key)
    /\ Follow(heap, _config, <<Seg_s>>) = [found |-> TRUE, val |-> VInt(5)]
    /\ ret.out = Return(VStr(<<"8","0","0">>))

\* C5: coercion of an override string follows a fixed first-match order:
\* a case-insensitive member of {true, yes, 1, on} gives True; else a
\* case-insensitive member of {false, no, 0, off} gives False; else an
\* integer literal gives that integer; else a float literal gives that float;
\* else the string itself.  "1" and "0" give booleans, "800" gives 800.
C5_CoercionOrder ==
    ret.op = "_convert_type" =>
        LET v == ret.value
            low == StrLower(v)
            isTrue == low \in { <<"t","r","u","e">>, <<"y","e","s">>, <<"1">>, <<"o","n">> }
            isFalse == low \in { <<"f","a","l","s","e">>, <<"n","o">>, <<"0">>, <<"o","f","f">> }
            out == ret.out.val
        IN  /\ ret.out.kind = "return"
            /\ isTrue => out = VBool(TRUE)
            /\ (~isTrue /\ isFalse) => out = VBool(FALSE)
            /\ (~isTrue /\ ~isFalse /\ IsIntLiteral(v)) => out = VInt(IntOf(v))
            /\ (~isTrue /\ ~isFalse /\ ~IsIntLiteral(v) /\ IsFloatLiteral(v)) =>
                   (out.t = "float" /\ out = FloatOf(v))
            /\ (~isTrue /\ ~isFalse /\ ~IsIntLiteral(v) /\ ~IsFloatLiteral(v)) =>
                   out = VStr(v)
            /\ v = <<"1">> => out = VBool(TRUE)
            /\ v = <<"0">> => out = VBool(FALSE)
            /\ v = <<"8","0","0">> => out = VInt(800)

\* "1" was coerced, to the boolean
C5_Witness ==
    /\ ret.op = "_convert_type"
    /\ ret.value = <<"1">>
    /\ ret.out = Return(VBool(TRUE))

(***************************************************************************)
(* Values compared by content: a reference is replaced by the content of  *)
(* the object it refers to                                                 *)
(***************************************************************************)
RECURSIVE DeepVal(_, _)
DeepVal(h, v) ==
    IF ~IsRef(v) THEN v
    ELSE IF h[v.r].k = "dict"
    THEN [t |-> "dict", m |-> [k \in DOMAIN h[v.r].m |-> DeepVal(h, h[v.r].m[k])]]
    ELSE [t |-> "list", q |-> [i \in 1..Len(h[v.r].q) |-> DeepVal(h, h[v.r].q[i])]]

DeepOutcome(h, out) ==
    IF out.kind = "return" THEN Return(DeepVal(h, out.val)) ELSE out

\* what get, get_section and get_all answer in a state, by content
LookupResults(env, h, cfg) ==
    [get |-> [key \in Keys |->
                 [required \in BOOLEAN |->
                     DeepOutcome(h, Get(env, h, cfg, key, VNull, required))]],
     get_section |-> [section \in Sections |->
                 LET r == GetSection(h, cfg, section)
                 IN  DeepOutcome(r.heap, r.out)],
     get_all |-> LET r == GetAll(h, cfg) IN DeepOutcome(r.heap, r.out)]

\* the tree a document parses to, `or {}` applied
DocTree(d) ==
    IF Truthy(DocObjects(d), DocRoot(d))
    THEN [heap |-> DocObjects(d), val |-> DocRoot(d)]
    ELSE [heap |-> << EmptyDict >>, val |-> VRef(1)]

IsTopLevelKey(h, cfg, section) ==
    IsRef(cfg) /\ h[cfg.r].k = "dict" /\ section \in DOMAIN h[cfg.r].m

\* C6: get_section(name) fails with MissingConfigError exactly when name is
\* not a top-level key of the loaded tree; for every top-level key, whatever
\* kind of value is stored under it, it returns a mapping equal to the
\* document's value under that key.
C6_SectionForEveryTopLevelKey ==
    ret.op = "get_section" =>
        /\ (ret.out = Raise("MissingConfigError")) <=>
               ~IsTopLevelKey(heap, _config, ret.section)
        /\ IsTopLevelKey(heap, _config, ret.section) =>
               /\ ret.out.kind = "return"
               /\ IsDictAt(heap, ret.out.val)
               /\ DeepVal(heap, ret.out.val) =
                      DeepVal(heap, heap[_config.r].m[ret.section])

\* C7: mutating a mapping returned by get_section or get_all, or a nested
\* mapping or sequence reachable from it, never affects the resolver's tree:
\* get, get_section and get_all answer after the mutation as before it.
C7_CallerMutationInvisible ==
    [][ (ret.op \in {"get_section", "get_all"} /\ ret'.op = "mutate") =>
            LookupResults(environ', heap', _config') =
                LookupResults(environ, heap, _config) ]_vars

\* C8: after the document changed and reload() returned, get for a key
\* without override answers from the new document, and what the caller
\* obtained before the reload keeps its content.
C8_ReloadReflectsNewDocument ==
    [][ (ret'.op = "reload" /\ ret'.out.kind = "return") =>
            /\ \A key \in Keys, required \in BOOLEAN :
                   StrReplace(StrUpper(key), ".", "_") \notin DOMAIN environ' =>
                       DeepOutcome(heap', Get(environ', heap', _config', key,
                                              VNull, required))
                         = LET doc == DocTree(files[_config_path])
                           IN  DeepOutcome(doc.heap,
                                   IF Follow(doc.heap, doc.val, PathOf(key)).found
                                   THEN Return(Follow(doc.heap, doc.val, PathOf(key)).val)
                                   ELSE IF required THEN Raise("MissingConfigError")
                                   ELSE Return(VNull))
            /\ DeepVal(heap', held') = DeepVal(heap, held) ]_vars

\* the caller still holds the mapping {c: 1, n: null} of the old document
\* after a reload that made get("a.b.c") answer 2
C8_Witness ==
    /\ ret.op = "reload"
    /\ ret.out.kind = "return"
    /\ files[_config_path] = "D2"
    /\ IsRef(held)
    /\ DeepVal(heap, held) = [t |-> "dict", m |-> (Seg_c :> VInt(1) @@ Seg_n :> VNull)]
    /\ Get(environ, heap, _config, <<"a",".","b",".","c">>, VNull, TRUE) = Return(VInt(2))

C11_ContainsIffRequiredGetReturns ==
    ret.op = "contains" =>
        /\ ret.out \in { Return(VBool(TRUE)), Return(VBool(FALSE)) }
        /\ (ret.out = Return(VBool(TRUE))) <=>
               (Get(environ, heap, _config, ret.key, VNull, TRUE)
                    # Raise("MissingConfigError"))
        /\ (~HasOverride(ret.key) /\ Follow(heap, _config, PathOf(ret.key)).found) =>
               ret.out = Return(VBool(TRUE))

\* "a.b.n" in resolver is true although the document stores null there
C11_Witness ==
    /\ ret.op = "contains"
    /\ ret.key = <<"a",".","b",".","n">>
    /\ ~HasOverride(ret.key)
    /\ Follow(heap, _config, PathOf(ret.key)) = [found |-> TRUE, val |-> VNull]
    /\ ret.out = Return(VBool(TRUE))

\* C12: every call of get, get_section, get_all or the containment check,
\* returning or failing, leaves the tree, the document path and the
\* initialized flag unchanged; every lookup answers after it as before it.
C12_LookupsLeaveResolverUnchanged ==
    [][ ret'.op \in {"get", "get_section", "get_all", "contains"} =>
            /\ DeepVal(heap', _config') = DeepVal(heap, _config)
            /\ _config_path' = _config_path
            /\ _initialized' /\ _initialized
            /\ LookupResults(environ', heap', _config')
                   = LookupResults(environ, heap, _config)
            /\ \A key \in Keys :
                   Contains(environ', heap', _config', key)
                       = Contains(environ, heap, _config, key) ]_vars

\* a required get has just failed with MissingConfigError and the resolver
\* still answers get("a.b.c")
C12_Witness ==
    /\ ret.op = "get"
    /\ ret.required
    /\ ret.out = Raise("MissingConfigError")
    /\ _initialized
    /\ IsDictAt(heap, _config)
    /\ Follow(heap, _config, <<Seg_a, Seg_b, Seg_c>>).found

\* C13 as stated: is_debug and api_port each resolve by three steps: the
\* dedicated variable (DEBUG, API_PORT) parsed as a boolean / an integer
\* when it is set; otherwise the document value at app.debug / api.port;
\* otherwise false / 8000.
C13_ThreeStepChain ==
    /\ ret.op = "is_debug" =>
           ret.out =
               IF Env_DEBUG \in DOMAIN environ
               THEN Return(VBool(StrLower(environ[Env_DEBUG]) \in TrueWords))
               ELSE IF Follow(heap, _config, <<Seg_app, Seg_debug>>).found
               THEN Return(Follow(heap, _config, <<Seg_app, Seg_debug>>).val)
               ELSE Return(VBool(FALSE))
    /\ ret.op = "api_port" =>
           IF Env_API_PORT \in DOMAIN environ
           THEN IsIntLiteral(environ[Env_API_PORT]) =>
                    ret.out = Return(VInt(IntOf(environ[Env_API_PORT])))
           ELSE IF Follow(heap, _config, <<Seg_api, Seg_port>>).found
           THEN ret.out = Return(Follow(heap, _config, <<Seg_api, Seg_port>>).val)
           ELSE ret.out = Return(VInt(8000))

\* C13 amended: is_debug is the boolean reading of DEBUG when DEBUG is set;
\* otherwise the coerced APP_DEBUG variable when that is set; otherwise the
\* document value at app.debug as stored; otherwise false.  api_port is
\* int() of API_PORT when set, otherwise int() of the document value at
\* api.port, otherwise 8000, and it raises when int() cannot convert the
\* selected value.
C13_AccessorChains ==
    /\ ret.op = "is_debug" =>
           ret.out =
               IF Env_DEBUG \in DOMAIN environ
               THEN Return(VBool(StrLower(environ[Env_DEBUG]) \in TrueWords))
               ELSE IF Env_APP_DEBUG \in DOMAIN environ
               THEN Return(ConvertType(environ[Env_APP_DEBUG]))
               ELSE IF Follow(heap, _config, <<Seg_app, Seg_debug>>).found
               THEN Return(Follow(heap, _config, <<Seg_app, Seg_debug>>).val)
               ELSE Return(VBool(FALSE))
    /\ ret.op = "api_port" =>
           LET chosen == IF Env_API_PORT \in DOMAIN environ
                         THEN VStr(environ[Env_API_PORT])
                         ELSE IF Follow(heap, _config, <<Seg_api, Seg_port>>).found
                         THEN Follow(heap, _config, <<Seg_api, Seg_port>>).val
                         ELSE VInt(8000)
           IN  /\ ret.out = IntCast(heap, chosen)
               /\ chosen.t = "int" => ret.out = Return(chosen)
               /\ chosen.t \in {"null", "ref"} => ret.out = Raise("TypeError")
               /\ (chosen.t = "str" /\ ~IsIntLiteral(chosen.s)) =>
                      ret.out = Raise("ValueError")

\* is_debug answers true from APP_DEBUG=1 while DEBUG is unset and the
\* document stores false at app.debug
C13_Witness ==
    /\ ret.op = "is_debug"
    /\ Env_DEBUG \notin DOMAIN environ
    /\ Env_APP_DEBUG \in DOMAIN environ
    /\ environ[Env_APP_DEBUG] = <<"1">>
    /\ Follow(heap, _config, <<Seg_app, Seg_debug>>) = [found |-> TRUE, val |-> VBool(FALSE)]
    /\ ret.out = Return(VBool(TRUE))

\* C14: each run of override loading (a construction that initializes, a
\* reload) loads at most one candidate .env file: configs/.env when it
\* exists, otherwise the project-root .env when that exists; the variables
\* of the other file do not enter the environment in that run.
C14_FirstEnvFileOnly ==
    [][ ((ret'.op = "construct" /\ ret'.ran) \/ ret'.op = "reload") =>
            LET chosen == IF dotenv["configs"] # "absent" THEN {"configs"}
                          ELSE IF dotenv["root"] # "absent" THEN {"root"}
                          ELSE {}
                content == IF dotenv["configs"] # "absent"
                           THEN DotenvContent(dotenv["configs"])
                           ELSE DotenvContent(dotenv["root"])
            IN  /\ Cardinality(ret'.used) <= 1
                /\ ret'.used = chosen
                /\ DOMAIN environ' = DOMAIN environ \cup DOMAIN content
                /\ \A n \in DOMAIN environ' :
                       environ'[n] = IF n \in DOMAIN environ THEN environ[n]
                                     ELSE content[n] ]_vars

\* both files exist; only configs/.env was loaded: A_B comes from it and
\* OPENAI_API_KEY, which only the project-root .env defines, is not set
C14_Witness ==
    /\ ret.op \in {"construct", "reload"}
    /\ dotenv = [configs |-> "envA", root |-> "envB"]
    /\ ret.used = {"configs"}
    /\ _env_loaded
    /\ Env_OPENAI_API_KEY \notin DOMAIN environ
    /\ Env_A_B \in DOMAIN environ
    /\ environ[Env_A_B] = <<"8","0","0">>

\* C15: in every state reached after a successful construction or reload
\* the resolver's tree is a mapping; a document whose top level is a
\* sequence or a scalar is not accepted as the tree.
C15_TreeIsMapping ==
    _initialized => IsDictAt(heap, _config)

\* C16 as stated: main() always runs all nine checks, in the fixed order,
\* and ends with exit code 0 exactly when all nine recorded checks passed.
C16_AllNineAlways ==
    mainpc \in {"returned", "raised"} =>
        /\ Len(results) = 9
        /\ \A i \in 1..Len(results) : results[i][1] = CheckNames[i]
        /\ ret.out = Return(VInt(IF \A i \in 1..9 : results[i][2] THEN 0 ELSE 1))

\* C16 amended: the checks run in the fixed order and a check that returns
\* False stops nothing; main() returns only after all nine are recorded,
\* with 0 exactly when all nine passed, and the API-key check is not
\* recorded and does not enter the exit code.  An exception that one of
\* the six import checks does not catch ends main() there: the later
\* checks are not run and nothing is returned.
C16_MainRunsChecksInOrder ==
    /\ Len(results) <= 9
    /\ \A i \in 1..Len(results) : results[i][1] = CheckNames[i]
    /\ mainpc \in {"api_key", "summary", "returned"} => Len(results) = 9
    /\ mainpc = "returned" =>
           /\ ret.op = "main"
           /\ ret.out = Return(VInt(IF \A i \in 1..9 : results[i][2] THEN 0 ELSE 1))
    /\ mainpc = "raised" =>
           /\ ret.op = "main"
           /\ ret.out.kind = "raise"
           /\ Len(results) < 6
           /\ \A i \in 1..Len(results) : results[i][2] \in BOOLEAN

\* the first check failed, all nine were still recorded, main() returned 1;
\* the API-key check had passed and the exit code is 1 all the same
C16_Witness ==
    /\ mainpc = "returned"
    /\ Len(results) = 9
    /\ ~results[1][2]
    /\ \A i \in 2..9 : results[i][2]
    /\ ret.api_key
    /\ ret.out = Return(VInt(1))

\* C17: a construction that fails with ConfigurationError leaves the
\* initialized flag false, and the flag becomes true only in a construction
\* that returns; the next construction request runs initialization again on
\* the same instance, with the path of its own argument.
C17_FailedConstructionIsRetried ==
    [][ ret'.op = "construct" =>
            /\ ret'.out.kind = "raise" =>
                   (ret'.out = Raise("ConfigurationError") /\ ~_initialized')
            /\ (_initialized' /\ ~_initialized) => ret'.out.kind = "return"
            /\ (_instance # 0 /\ ~_initialized) =>
                   /\ ret'.ran
                   /\ _instance' = _instance
                   /\ created' = created
                   /\ _config_path' = (IF ret'.arg = "alt" THEN "alt" ELSE "default")
                   /\ (ret'.out.kind = "return") <=>
                          (files[_config_path'] \notin BadFileStates)
                   /\ _initialized' <=> (files[_config_path'] \notin BadFileStates) ]_vars

\* a construction with an explicit path has succeeded on the instance whose
\* first initialization had failed on the default document
C17_Witness ==
    /\ ret.op = "construct"
    /\ ret.rerun
    /\ ret.arg = "alt"
    /\ ret.out = Return(VInt(1))
    /\ _initialized
    /\ _config_path = "alt"
    /\ created = 1
    /\ files["default"] \in BadFileStates

\* C18: a reload() that fails with ConfigurationError leaves the tree that
\* was loaded before in place: get, get_section and get_all answer from the
\* document as before the failed reload, and the resolver stays initialized.
C18_FailedReloadKeepsTree ==
    [][ (ret'.op = "reload" /\ ret'.out.kind = "raise") =>
            /\ ret'.out = Raise("ConfigurationError")
            /\ files[_config_path] \in BadFileStates
            /\ _initialized'
            /\ _config_path' = _config_path
            /\ DeepVal(heap', _config') = DeepVal(heap, _config)
            /\ \A key \in Keys, required \in BOOLEAN :
                   (~HasOverride(key) /\ StrReplace(StrUpper(key), ".", "_")
                                             \notin DOMAIN environ') =>
                       DeepOutcome(heap', Get(environ', heap', _config', key,
                                              VNull, required))
                         = DeepOutcome(heap, Get(environ, heap, _config, key,
                                                 VNull, required))
            /\ LookupResults(environ', heap', _config').get_section
                   = LookupResults(environ, heap, _config).get_section
            /\ LookupResults(environ', heap', _config').get_all
                   = LookupResults(environ, heap, _config).get_all ]_vars

\* the document has gone missing, reload() has failed, and get("a.b.c")
\* still answers 1 from the tree loaded before
C18_Witness ==
    /\ ret.op = "reload"
    /\ ret.out = Raise("ConfigurationError")
    /\ _initialized
    /\ files[_config_path] = "missing"
    /\ Get(environ, heap, _config, <<"a",".","b",".","c">>, VNull, TRUE) = Return(VInt(1))

\* C19: when an override is present the result of get depends only on the
\* transformed key: every dot-path with the same uppercase, underscore-joined
\* name gets the same coerced override value, whatever the document, the
\* default and the required flag are.
C19_SameNameSameOverride ==
    (ret.op = "get" /\ HasOverride(ret.key)) =>
        \A other \in Keys, default \in Defaults, required \in BOOLEAN :
            StrReplace(StrUpper(other), ".", "_")
                = StrReplace(StrUpper(ret.key), ".", "_") =>
                /\ Get(environ, heap, _config, other, default, required) = ret.out
                /\ ret.out = Return(ConvertType(OverrideOf(other)))

\* get("a.b_c") answered 800 from A_B_C, as get("a_b.c") and get("a.b.c")
\* do, while the document stores "1", nothing and 1 at these paths
C19_Witness ==
    /\ ret.op = "get"
    /\ ret.key = <<"a",".","b","_","c">>
    /\ Env_A_B_C \in DOMAIN environ
    /\ environ[Env_A_B_C] = <<"8","0","0">>
    /\ Follow(heap, _config, <<Seg_a, Seg_b_c>>) = [found |-> TRUE, val |-> VStr(<<"1">>)]
    /\ ~Follow(heap, _config, << <<"a","_","b">>, Seg_c >>).found
    /\ Follow(heap, _config, <<Seg_a, Seg_b, Seg_c>>) = [found |-> TRUE, val |-> VInt(1)]
    /\ ret.out = Return(VInt(800))
    /\ Get(environ, heap, _config, <<"a","_","b",".","c">>, VNull, TRUE) = ret.out

\* C20: a get(key) for a key without override that runs while one reload()
\* binds its tree navigates a single tree: its result is the result of the
\* lookup in the complete tree bound when the get began or in the complete
\* tree bound when it ended, never a mixture and never a partly loaded tree.
C20_GetSeesOneTree ==
    [][ (threads.get.pc = "loop" /\ threads'.get.pc = "idle"
             /\ threads.get.assigns <= 1) =>
            LET t == threads.get
                before == Follow(heap, t.cfg0, PathOf(t.key))
                after == Follow(heap, _config, PathOf(t.key))
                missing == IF t.required THEN Raise("MissingConfigError")
                           ELSE Return(t.default)
            IN  \/ ret'.out = IF before.found THEN Return(before.val) ELSE missing
                \/ ret'.out = IF after.found THEN Return(after.val) ELSE missing ]_vars

\* a get that began before a reload bound the new tree and ended after it
\* answered 1 from the old tree, while the tree now bound gives 2
C20_Witness ==
    /\ ret.op = "get"
    /\ ret.assigns = 1
    /\ ret.key = <<"a",".","b",".","c">>
    /\ ret.out = Return(VInt(1))
    /\ threads.get.pc = "idle"
    /\ Follow(heap, _config, <<Seg_a, Seg_b, Seg_c>>) = [found |-> TRUE, val |-> VInt(2)]

====
